---- MODULE Spec2Model ----
(***************************************************************************)
(* Survey page of experiment 02 (testing-space-before-it-happens):         *)
(* the phase machine driven by the page's handlers and by the completion   *)
(* of its pending fetches, and the derived tallies.  Texts are strings,    *)
(* JavaScript null is the empty tuple and a present value v is <<v>>.      *)
(* Image generation, the household map and the progress displays          *)
(* (surveyProgress, currentFollowUpQuestion, surveyModelUsed) are not part *)
(* of the model: no handler below reads them.                              *)
(***************************************************************************)
EXTENDS Integers, Sequences, FiniteSets, Bags, TLC

VARIABLES
    loadingPersonas, personas, error, selectedModel, previousModel,
    phase, surveyResults, totalCost, costEstimate,
    voteTallies,        \* the $derived view of surveyResults
    followUpQuestions, followUpResults, followUpCostEstimate,
    winningOption,
    useSampleData, sampleData, loadingSampleData,
    procs,      \* bag of the async handler invocations suspended at an await
    ledger,     \* history: total_cost of the run responses consumed, and the
                \* data source the surveys of the cycle were started with
    failuresLeft, \* environment: requests that may still end without a successful response
    input, output, pc   \* argument, result and position of a derived view evaluated on its own

vars == << loadingPersonas, personas, error, selectedModel, previousModel,
           phase, surveyResults, voteTallies, totalCost, costEstimate,
           followUpQuestions, followUpResults, followUpCostEstimate,
           winningOption,
           useSampleData, sampleData, loadingSampleData,
           procs, ledger, failuresLeft, input, output, pc >>

pageVars == << loadingPersonas, personas, error, selectedModel, previousModel,
               phase, surveyResults, voteTallies, totalCost, costEstimate,
               followUpQuestions, followUpResults, followUpCostEstimate,
               winningOption,
               useSampleData, sampleData, loadingSampleData, procs, ledger, failuresLeft >>

viewVars == << input, output, pc >>

-----------------------------------------------------------------------------
(* Bounds *)

NumPersonas == 2        \* personas returned by /api/personas
MaxProcs == 2           \* handler invocations suspended at the same time
MaxFailures == 1        \* requests that end without a successful response
MaxTotalCost == 2       \* a follow-up run starts only below this accumulated cost
MaxFirstRunFailures == 3  \* the same, when only the first survey is exercised
MaxResponses == 3       \* length of a response list handed to a tally

-----------------------------------------------------------------------------
(* null and present values *)

null == << >>
Some(v) == << v >>
Val(x) == x[1]

-----------------------------------------------------------------------------
(* String primitives of JavaScript used by the page *)

UpperChars == "ABCDEFGHIJKLMNOPQRSTUVWXYZ"
LowerChars == "abcdefghijklmnopqrstuvwxyz"
WhiteSpace == {" ", "\t", "\n"}

CharAt(s, i) == SubSeq(s, i, i)

UpperSet == { CharAt(UpperChars, i) : i \in 1..Len(UpperChars) }

lowerOf == [ c \in UpperSet |->
               CharAt(LowerChars, CHOOSE i \in 1..Len(UpperChars) : CharAt(UpperChars, i) = c) ]

LowerChar(c) == IF c \in UpperSet THEN lowerOf[c] ELSE c

RECURSIVE toLowerCase(_)
toLowerCase(s) ==
    IF s = "" THEN "" ELSE LowerChar(CharAt(s, 1)) \o toLowerCase(SubSeq(s, 2, Len(s)))

RECURSIVE trimStart(_)
trimStart(s) ==
    IF s # "" /\ CharAt(s, 1) \in WhiteSpace THEN trimStart(SubSeq(s, 2, Len(s))) ELSE s

RECURSIVE trimEnd(_)
trimEnd(s) ==
    IF s # "" /\ CharAt(s, Len(s)) \in WhiteSpace THEN trimEnd(SubSeq(s, 1, Len(s) - 1)) ELSE s

trim(s) == trimEnd(trimStart(s))

\* s.includes(t): t occurs in s as a substring; the empty string occurs in every string
includes(s, t) ==
    \E i \in 1..(Len(s) - Len(t) + 1) : SubSeq(s, i, i + Len(t) - 1) = t

\* s.split(' '): the pieces between single spaces, empty pieces kept
RECURSIVE split(_)
split(s) ==
    IF \E i \in 1..Len(s) : CharAt(s, i) = " "
    THEN LET k == CHOOSE i \in 1..Len(s) :
                    /\ CharAt(s, i) = " "
                    /\ \A j \in 1..(i - 1) : CharAt(s, j) # " "
         IN  << SubSeq(s, 1, k - 1) >> \o split(SubSeq(s, k + 1, Len(s)))
    ELSE << s >>

-----------------------------------------------------------------------------
(* Sequence helpers *)

RECURSIVE SumSeq(_)
SumSeq(s) == IF s = << >> THEN 0 ELSE Head(s) + SumSeq(Tail(s))

\* Array.prototype.sort((a, b) => b[1] - a[1]) on [label, count] entries:
\* descending by count, stable
\* an entry placed before the entries of equal count
RECURSIVE insertByCount_beforeEqual(_, _)
insertByCount_beforeEqual(e, sorted) ==
    IF sorted = << >> THEN << e >>
    ELSE IF Head(sorted)[2] > e[2]
         THEN << Head(sorted) >> \o insertByCount_beforeEqual(e, Tail(sorted))
         ELSE << e >> \o sorted

RECURSIVE insertByCount(_, _)
insertByCount(e, sorted) ==
    IF sorted = << >> THEN << e >>
    ELSE IF Head(sorted)[2] >= e[2]
         THEN << Head(sorted) >> \o insertByCount(e, Tail(sorted))
         ELSE << e >> \o sorted

RECURSIVE sortByCountDesc(_)
sortByCountDesc(entries) ==
    IF entries = << >> THEN << >>
    ELSE LET n == Len(entries)
         IN  insertByCount(entries[n], sortByCountDesc(SubSeq(entries, 1, n - 1)))

-----------------------------------------------------------------------------
(* Tallies *)

plotOptions == << "Allotments", "Playground", "Outdoor gym", "Pond", "Urban forest",
                  "Sculpture park", "Junkyard", "Courtyard", "Carpark",
                  "Urban caving entrance", "Portacabins" >>

\* the containment test without lowercasing the option
contains_caseSensitive(response, opt) == includes(response, opt) \/ includes(opt, response)

\* the containment test of one option against the lowercased, trimmed response
contains(response, opt) ==
    LET lower == toLowerCase(opt)
    IN  includes(response, lower) \/ includes(lower, response)

\* an option word counted only when a response word contains it
overlap_responseContainsOnly(response, opt) ==
    LET optWords == split(toLowerCase(opt))
        responseWords == split(response)
        Hit(w) == \E k \in 1..Len(responseWords) : includes(responseWords[k], w)
    IN  SelectSeq(optWords, Hit)

\* the option words that overlap some word of the response
overlap(response, opt) ==
    LET optWords == split(toLowerCase(opt))
        responseWords == split(response)
        Hit(w) == \E k \in 1..Len(responseWords) :
                     includes(responseWords[k], w) \/ includes(w, responseWords[k])
    IN  SelectSeq(optWords, Hit)

\* the keys of counts incremented for one result of surveyResults
voteBuckets_noOther(r) ==
    LET response == trim(toLowerCase(r.response))
        direct == { i \in 1..Len(plotOptions) : contains(response, plotOptions[i]) }
        fuzzy == { i \in 1..Len(plotOptions) : Len(overlap(response, plotOptions[i])) >= 3 }
        Min(S) == CHOOSE i \in S : \A j \in S : i <= j
    IN  IF direct # {} THEN << plotOptions[Min(direct)] >>
        ELSE IF fuzzy # {} THEN << plotOptions[Min(fuzzy)] >>
        ELSE << >>

\* the garden options of experiment 01, tallied by the same code
gardenOptions == <<
    "Community vegetable garden with shared plots",
    "Traditional allotments for individual households",
    "Community orchard with fruit trees",
    "Herb and medicinal plant garden",
    "Urban farm with raised beds and composting",
    "Wildflower meadow for pollinators",
    "Native woodland with walking paths",
    "Wildlife pond and wetland habitat",
    "Butterfly and bee sanctuary",
    "Rewilded space with minimal intervention",
    "Children's adventure playground",
    "Multi-use games area (MUGA)",
    "Outdoor gym and fitness equipment",
    "Quiet seating area with benches",
    "Picnic lawn and BBQ area",
    "Covered community pavilion for events",
    "Outdoor amphitheatre for performances",
    "Community kitchen garden with cooking area",
    "Flexible event space with power and lighting",
    "Outdoor cinema and gathering space",
    "Sensory garden for accessibility",
    "Meditation and mindfulness garden",
    "Therapeutic horticulture space",
    "Quiet contemplation garden (memorial/reflection)",
    "Forest bathing and nature connection area",
    "Secure bike parking and repair station",
    "Tool library and community workshop",
    "Rainwater harvesting and sustainable drainage",
    "Solar-powered community charging hub",
    "Mixed-use space with rotating seasonal uses" >>

\* the fuzzy tier tried first
classify_overlapFirst(options, r) ==
    LET response == trim(toLowerCase(r.response))
        direct == { i \in 1..Len(options) : contains(response, options[i]) }
        fuzzy == { i \in 1..Len(options) : Len(overlap(response, options[i])) >= 3 }
        Min(S) == CHOOSE i \in S : \A j \in S : i <= j
    IN  IF fuzzy # {} THEN << options[Min(fuzzy)] >>
        ELSE IF direct # {} THEN << options[Min(direct)] >>
        ELSE << "Other" >>

\* an unmatched response counted under the first option
classify_firstOptionDefault(options, r) ==
    LET response == trim(toLowerCase(r.response))
        direct == { i \in 1..Len(options) : contains(response, options[i]) }
        fuzzy == { i \in 1..Len(options) : Len(overlap(response, options[i])) >= 3 }
        Min(S) == CHOOSE i \in S : \A j \in S : i <= j
    IN  IF direct # {} THEN << options[Min(direct)] >>
        ELSE IF fuzzy # {} THEN << options[Min(fuzzy)] >>
        ELSE << options[1] >>

\* the keys of counts incremented for one result, for the option list options:
\* the first option passing the containment test, else the first option with
\* three overlapping words, else 'Other'
classify(options, r) ==
    LET response == trim(toLowerCase(r.response))
        direct == { i \in 1..Len(options) : contains(response, options[i]) }
        fuzzy == { i \in 1..Len(options) : Len(overlap(response, options[i])) >= 3 }
        Min(S) == CHOOSE i \in S : \A j \in S : i <= j
    IN  IF direct # {} THEN << options[Min(direct)] >>
        ELSE IF fuzzy # {} THEN << options[Min(fuzzy)] >>
        ELSE << "Other" >>

voteBuckets(r) == classify(plotOptions, r)

\* the keys of counts incremented by followUpTallies for one result of question
\* q: the first option passing the containment test, else none
followUpBuckets(q, r) ==
    LET response == trim(toLowerCase(r.response))
        direct == { i \in 1..Len(q.options) : contains(response, q.options[i]) }
    IN  IF direct # {} THEN << q.options[CHOOSE i \in direct : \A j \in direct : i <= j] >>
        ELSE << >>

\* counts as the list of its [key, value] entries in insertion order
RECURSIVE increment(_, _)
increment(counts, keys) ==
    IF keys = << >> THEN counts
    ELSE LET key == Head(keys)
             bumped == IF \E i \in 1..Len(counts) : counts[i][1] = key
                       THEN [ i \in 1..Len(counts) |->
                                IF counts[i][1] = key
                                THEN << key, counts[i][2] + 1 >> ELSE counts[i] ]
                       ELSE Append(counts, << key, 1 >>)
         IN  increment(bumped, Tail(keys))

RECURSIVE countVotes(_, _)
countVotes(counts, results) ==
    IF results = << >> THEN counts
    ELSE countVotes(increment(counts, voteBuckets(Head(results))), Tail(results))

\* the entries of count 0 kept
computeVoteTallies_keepZero(results) ==
    IF Len(results) = 0 THEN << >>
    ELSE LET zero == [ i \in 1..Len(plotOptions) |-> << plotOptions[i], 0 >> ]
         IN  sortByCountDesc(countVotes(zero, results))

\* the function handed to $derived.by for voteTallies
computeVoteTallies(results) ==
    IF Len(results) = 0 THEN << >>
    ELSE LET zero == [ i \in 1..Len(plotOptions) |-> << plotOptions[i], 0 >> ]
             Positive(e) == e[2] > 0
         IN  sortByCountDesc(SelectSeq(countVotes(zero, results), Positive))

\* personas.find((p) => p.id === id): the persona, or null when there is none
findPersona(ps, id) ==
    LET found == { k \in 1..Len(ps) : ps[k] = id }
    IN  IF found = {} THEN null ELSE Some(ps[CHOOSE k \in found : \A j \in found : k <= j])

\* the function handed to $derived.by for topChoiceVoters
topChoiceVoters(tallies, results, ps) ==
    IF Len(tallies) = 0 THEN << >>
    ELSE LET topChoice == tallies[1][1]
             Voted(r) == LET response == toLowerCase(r.response)
                         IN  \/ includes(response, toLowerCase(topChoice))
                             \/ includes(toLowerCase(topChoice), response)
             voters == SelectSeq(results, Voted)
         IN  IF topChoice = "" THEN << >>
             ELSE [ k \in 1..Len(voters) |->
                      [persona_id |-> voters[k].persona_id, response |-> voters[k].response,
                       persona |-> findPersona(ps, voters[k].persona_id)] ]

RECURSIVE countFollowUps(_, _, _)
countFollowUps(counts, q, results) ==
    IF results = << >> THEN counts
    ELSE countFollowUps(increment(counts, followUpBuckets(q, Head(results))), q,
                        Tail(results))

\* the function handed to $derived.by for followUpTallies
computeFollowUpTallies(results, questions) ==
    IF Len(results) = 0 \/ Len(questions) = 0 THEN << >>
    ELSE [ i \in 1..Len(questions) |->
             LET q == questions[i]
                 Asked(r) == r.question_index = i - 1
                 zero == [ j \in 1..Len(q.options) |-> << q.options[j], 0 >> ]
             IN  [question |-> q.text,
                  tallies |-> sortByCountDesc(countFollowUps(zero, q, SelectSeq(results, Asked)))] ]

-----------------------------------------------------------------------------
(* Follow-up question catalog *)

\* the branches of generateFollowUpQuestions in source order: the keywords tested
\* against the lowercased winning option and the questions pushed
followUpCatalog == <<
    [keywords |-> << "allotment" >>,
     questions |-> <<
        [id |-> "plot_style", text |-> "How should the plots be laid out?",
           options |-> << "Raised beds", "Ground-level rows", "Mixed sizes for different needs" >>],
        [id |-> "shared_facility", text |-> "What shared facility is most important?",
           options |-> << "Tool shed", "Greenhouse", "Composting area", "Water taps throughout" >>],
        [id |-> "paths", text |-> "What should the paths be made of?",
           options |-> << "Gravel", "Wood chip", "Paved slabs", "Mown grass" >>] >>],
    [keywords |-> << "playground" >>,
     questions |-> <<
        [id |-> "age_group", text |-> "What age group should it focus on?",
           options |-> << "Toddlers (under 5)", "Children (5-12)", "All ages mixed" >>],
        [id |-> "main_equipment", text |-> "What should be the main equipment?",
           options |-> << "Climbing frame with slide", "Swings", "Natural play (logs, boulders)", "Water play" >>],
        [id |-> "surface", text |-> "What should the ground surface be?",
           options |-> << "Rubber safety surface", "Wood chip", "Sand", "Grass" >>] >>],
    [keywords |-> << "gym" >>,
     questions |-> <<
        [id |-> "equipment_type", text |-> "What type of equipment?",
           options |-> << "Bodyweight stations", "Cardio machines", "Calisthenics bars", "Mixed variety" >>],
        [id |-> "surface", text |-> "What should the ground surface be?",
           options |-> << "Rubber matting", "Artificial grass", "Paved area", "Natural grass" >>],
        [id |-> "extras", text |-> "What extra feature would be most useful?",
           options |-> << "Drinking fountain", "Covered shelter", "Stretching area", "Running track around edge" >>] >>],
    [keywords |-> << "pond" >>,
     questions |-> <<
        [id |-> "pond_size", text |-> "How large should the pond be?",
           options |-> << "Small wildlife pond", "Medium pond with seating", "Large pond with island" >>],
        [id |-> "access", text |-> "How should people access the pond?",
           options |-> << "Viewing platform", "Boardwalk around edge", "Natural banks to sit on", "Dipping platform" >>],
        [id |-> "surrounding", text |-> "What should surround the pond?",
           options |-> << "Wetland plants", "Wildflower meadow", "Trees and shrubs", "Lawn area" >>] >>],
    [keywords |-> << "urban forest", "forest" >>,
     questions |-> <<
        [id |-> "tree_types", text |-> "What type of trees?",
           options |-> << "Native woodland mix", "Fruit and nut trees", "Fast-growing for quick shade", "Evergreen year-round" >>],
        [id |-> "density", text |-> "How dense should it be?",
           options |-> << "Dense woodland feel", "Open with scattered trees", "Mix of clearings and thickets" >>],
        [id |-> "paths", text |-> "What paths through the forest?",
           options |-> << "Winding woodland trails", "Single loop path", "Boardwalk", "No formal paths" >>] >>],
    [keywords |-> << "sculpture", "park" >>,
     questions |-> <<
        [id |-> "art_style", text |-> "What style of sculptures?",
           options |-> << "Abstract modern", "Figurative and traditional", "Interactive installations", "Local artist commissions" >>],
        [id |-> "layout", text |-> "How should it be laid out?",
           options |-> << "Formal paths between pieces", "Scattered through gardens", "Central plaza with surrounding pieces" >>],
        [id |-> "landscape", text |-> "What should the landscaping be?",
           options |-> << "Manicured lawns", "Wildflower meadows", "Gravel and paving", "Mixed planting beds" >>] >>],
    [keywords |-> << "junkyard" >>,
     questions |-> <<
        [id |-> "purpose", text |-> "What should the junkyard be for?",
           options |-> << "Adventure playground from scrap", "Art installations from waste", "Community repair workshop", "Salvage and reuse depot" >>],
        [id |-> "aesthetic", text |-> "What aesthetic?",
           options |-> << "Organised chaos", "Curated industrial", "Hidden treasures", "Colourful and artistic" >>],
        [id |-> "access", text |-> "Who should access it?",
           options |-> << "Open to all", "Supervised sessions only", "Members with training", "Children with adults" >>] >>],
    [keywords |-> << "courtyard" >>,
     questions |-> <<
        [id |-> "style", text |-> "What style of courtyard?",
           options |-> << "Mediterranean with tiles", "Japanese zen garden", "English cottage garden", "Modern minimalist" >>],
        [id |-> "centre", text |-> "What should be in the centre?",
           options |-> << "Fountain or water feature", "Large tree", "Seating area", "Open paved space" >>],
        [id |-> "planting", text |-> "What planting around the edges?",
           options |-> << "Climbing plants on walls", "Potted plants", "Formal hedges", "Flowering borders" >>] >>],
    [keywords |-> << "carpark", "car park" >>,
     questions |-> <<
        [id |-> "surface", text |-> "What surface?",
           options |-> << "Tarmac", "Gravel", "Permeable paving", "Grass reinforcement grid" >>],
        [id |-> "capacity", text |-> "How many spaces?",
           options |-> << "Maximum capacity", "Half spaces, half green", "Just a few spaces", "Mainly bike parking" >>],
        [id |-> "features", text |-> "What additional features?",
           options |-> << "EV charging points", "Trees for shade", "Bike storage", "None - just parking" >>] >>],
    [keywords |-> << "caving", "cave" >>,
     questions |-> <<
        [id |-> "entrance_style", text |-> "What style of entrance?",
           options |-> << "Natural rock formation", "Built stone archway", "Hidden and subtle", "Dramatic and visible" >>],
        [id |-> "above_ground", text |-> "What should be above ground?",
           options |-> << "Equipment storage hut", "Information centre", "Just the entrance", "Café and facilities" >>],
        [id |-> "access", text |-> "Who should access it?",
           options |-> << "Trained cavers only", "Guided tours for public", "Members with equipment", "Open supervised sessions" >>] >>],
    [keywords |-> << "portacabin", "porta" >>,
     questions |-> <<
        [id |-> "purpose", text |-> "What should the portacabins be used for?",
           options |-> << "Community meeting rooms", "Workspace and offices", "Youth club", "Storage and workshops" >>],
        [id |-> "quantity", text |-> "How many portacabins?",
           options |-> << "One large unit", "Several small units", "Clustered complex", "Stacked two-storey" >>],
        [id |-> "outside", text |-> "What should surround them?",
           options |-> << "Paved area with seating", "Garden and planting", "Parking spaces", "Fenced compound" >>] >>] >>

\* the final else branch: generic questions
genericQuestions == <<
    [id |-> "style", text |-> "What style should the space have?",
           options |-> << "Natural and informal", "Neat and structured", "Colourful and playful", "Simple and low-maintenance" >>],
    [id |-> "seating", text |-> "What seating should be included?",
           options |-> << "Wooden benches", "Picnic tables", "Stone seats", "Flexible (bring your own)" >>],
    [id |-> "boundary", text |-> "What should mark the boundaries?",
           options |-> << "Native hedge", "Low fence", "Flowering shrubs", "Open and unfenced" >>] >>

\* the last matching branch taken instead of the first
selectQuestions_lastMatch(winning) ==
    LET option == toLowerCase(winning)
        Matches(c) == \E k \in 1..Len(followUpCatalog[c].keywords) :
                          includes(option, followUpCatalog[c].keywords[k])
        matching == { c \in 1..Len(followUpCatalog) : Matches(c) }
    IN  IF matching = {} THEN genericQuestions
        ELSE followUpCatalog[CHOOSE c \in matching : \A d \in matching : c >= d].questions

\* the questions generateFollowUpQuestions builds for a winning option
selectQuestions(winning) ==
    LET option == toLowerCase(winning)
        Matches(c) == \E k \in 1..Len(followUpCatalog[c].keywords) :
                          includes(option, followUpCatalog[c].keywords[k])
        matching == { c \in 1..Len(followUpCatalog) : Matches(c) }
    IN  IF matching = {} THEN genericQuestions
        ELSE followUpCatalog[CHOOSE c \in matching : \A d \in matching : c <= d].questions

\* experiment 01: the branches of its generateFollowUpQuestions in source order
gardenCatalog == <<
    [keywords |-> << "vegetable", "garden", "allotment", "orchard", "herb", "farm" >>,
     questions |-> <<
        [id |-> "layout_style", text |-> "What visual layout style should the growing space have?",
           options |-> << "Neat geometric raised beds with gravel paths",
                      "Informal cottage garden style with winding paths",
                      "Traditional allotment rows with wooden plot markers",
                      "Modern urban farm with sleek planters and trellises",
                      "Permaculture forest garden with layered planting" >>],
        [id |-> "key_features", text |-> "What key visual features should be included?",
           options |-> << "A central greenhouse or polytunnel",
                      "Fruit tree archways and espaliers",
                      "A rustic wooden tool shed with green roof",
                      "Colourful bean poles and climbing frames",
                      "A communal seating area with pergola" >>],
        [id |-> "atmosphere", text |-> "What atmosphere should the space convey?",
           options |-> << "Productive and abundant - overflowing with vegetables",
                      "Peaceful and meditative - a green sanctuary",
                      "Social and bustling - people working together",
                      "Wild and naturalistic - blending with nature",
                      "Educational and inspiring - demonstration gardens" >>] >>],
    [keywords |-> << "playground", "children", "adventure" >>,
     questions |-> <<
        [id |-> "design_theme", text |-> "What design theme should the playground have?",
           options |-> << "Natural adventure - logs, boulders, rope bridges",
                      "Colourful modern - bright equipment and rubber surfacing",
                      "Imaginative themed - pirate ship or castle structure",
                      "Minimalist Scandinavian - wood and muted colours",
                      "Inclusive sensory - tactile elements and accessible equipment" >>],
        [id |-> "key_elements", text |-> "What should be the central feature?",
           options |-> << "A large climbing structure with slides",
                      "A natural water play area with pumps and channels",
                      "A hill with tunnels and slides built into it",
                      "A creative sand and mud kitchen area",
                      "Musical instruments and sensory panels" >>],
        [id |-> "surrounding_design", text |-> "What should surround the play area?",
           options |-> << "Shaded seating areas with native hedging",
                      "A wildflower meadow with mown paths",
                      "Picnic lawn with scattered trees",
                      "Sensory planting beds children can explore",
                      "A circular path for bikes and scooters" >>] >>],
    [keywords |-> << "wildflower", "wildlife", "pond", "meadow", "rewild", "sanctuary", "woodland" >>,
     questions |-> <<
        [id |-> "habitat_style", text |-> "What should be the dominant habitat character?",
           options |-> << "Colourful wildflower meadow with grasses",
                      "Native woodland copse with dappled shade",
                      "Wetland with pond and marginal planting",
                      "Mixed mosaic of meadow, scrub and trees",
                      "Formal nature reserve with distinct zones" >>],
        [id |-> "human_elements", text |-> "What human elements should be visible?",
           options |-> << "Rustic wooden benches and bird hides",
                      "Winding mown grass paths only",
                      "A small wooden boardwalk over wet areas",
                      "Interpretation boards and bug hotels",
                      "Almost nothing - let nature dominate" >>],
        [id |-> "seasonal_character", text |-> "What season should the image capture?",
           options |-> << "Summer - full bloom with butterflies and bees",
                      "Spring - emerging growth and nesting birds",
                      "Autumn - seed heads and golden grasses",
                      "Year-round interest - evergreen structure",
                      "Dawn or dusk - magical golden light" >>] >>],
    [keywords |-> << "pavilion", "amphitheatre", "event", "cinema", "gathering" >>,
     questions |-> <<
        [id |-> "architecture_style", text |-> "What architectural style should the structure have?",
           options |-> << "Contemporary timber with green roof",
                      "Industrial reclaimed materials - steel and wood",
                      "Traditional bandstand or gazebo style",
                      "Minimalist concrete amphitheatre steps",
                      "Tensile fabric canopy - light and temporary" >>],
        [id |-> "integration", text |-> "How should the structure sit in the landscape?",
           options |-> << "Nestled into planted earth banks",
                      "Open to a central lawn area",
                      "Surrounded by ornamental grasses",
                      "Under a canopy of mature trees",
                      "Adjacent to a reflecting pool" >>],
        [id |-> "activity_shown", text |-> "What activity should the image suggest?",
           options |-> << "Community gathering with string lights at dusk",
                      "Outdoor cinema night with blankets",
                      "Live music performance",
                      "Quiet daytime reading and relaxation",
                      "Children playing while adults chat" >>] >>],
    [keywords |-> << "sensory", "meditation", "therapeutic", "contemplation", "wellbeing", "forest bathing" >>,
     questions |-> <<
        [id |-> "design_approach", text |-> "What design approach should the garden take?",
           options |-> << "Japanese-inspired with raked gravel and bamboo",
                      "Sensory abundance - textures, scents, sounds",
                      "Minimal and calming - green and white planting",
                      "Enclosed garden rooms with hedges",
                      "Naturalistic woodland glade" >>],
        [id |-> "water_element", text |-> "What water feature should be included?",
           options |-> << "Still reflecting pool",
                      "Gentle bubbling fountain",
                      "Natural stream or rill",
                      "Rain garden with seasonal water",
                      "No water feature" >>],
        [id |-> "seating_style", text |-> "What seating should be provided?",
           options |-> << "Curved wooden benches in secluded spots",
                      "Meditation platforms and cushion areas",
                      "Hammocks and swing seats",
                      "Stone seats integrated into planting",
                      "Accessible raised seating with backs" >>] >>] >>

gardenGenericQuestions == <<
    [id |-> "overall_aesthetic", text |-> "What overall aesthetic should the space have?",
       options |-> << "Modern and clean - geometric lines and minimal planting",
                  "Natural and organic - curves and native plants",
                  "Colourful and playful - bold colours and varied textures",
                  "Traditional English garden - formal beds and hedges",
                  "Urban industrial - reclaimed materials and grasses" >>],
    [id |-> "focal_point", text |-> "What should be the main focal point?",
       options |-> << "A striking central tree or sculpture",
                  "A community gathering structure",
                  "A water feature",
                  "Naturalistic planting beds",
                  "An open flexible lawn area" >>],
    [id |-> "boundary_treatment", text |-> "How should the boundaries be treated?",
       options |-> << "Native hedgerow for wildlife",
                  "Open and welcoming - no barriers",
                  "Living willow screens",
                  "Mixed shrub and perennial borders",
                  "Low walls with integrated seating" >>] >>

\* a keyword matched only by an option equal to it
selectGardenQuestions_wholeText(winning) ==
    LET Matches(c) == \E k \in 1..Len(gardenCatalog[c].keywords) :
                          winning = gardenCatalog[c].keywords[k]
        matching == { c \in 1..Len(gardenCatalog) : Matches(c) }
    IN  IF matching = {} THEN gardenGenericQuestions
        ELSE gardenCatalog[CHOOSE c \in matching : \A d \in matching : c <= d].questions

\* the questions generateFollowUpQuestions of experiment 01 builds for a winning
\* option: the keywords are tested against the option as it is
selectGardenQuestions(winning) ==
    LET Matches(c) == \E k \in 1..Len(gardenCatalog[c].keywords) :
                          includes(winning, gardenCatalog[c].keywords[k])
        matching == { c \in 1..Len(gardenCatalog) : Matches(c) }
    IN  IF matching = {} THEN gardenGenericQuestions
        ELSE gardenCatalog[CHOOSE c \in matching : \A d \in matching : c <= d].questions

-----------------------------------------------------------------------------
(* The backend and the sample file, as far as the page sees them *)

Models == {"gpt-4o-mini", "gpt-4o"}
PageVoteTexts == {"Allotments"}

Price(m) == IF m = "gpt-4o-mini" THEN 1 ELSE 2

\* body of a successful /api/survey/estimate response; model is history, the
\* model named in the request
estimateReply(m, n) ==
    [num_agents |-> n, prompt_tokens |-> 10 * n, completion_tokens |-> n,
     cost_per_agent |-> Price(m), total_cost |-> Price(m) * n, model |-> m]

\* message of the Error caught when a request does not succeed: the one thrown
\* on a non-success response, or the one fetch rejects with
EstimateErrors == {"Failed to get cost estimate", "Failed to fetch"}
RunErrors == {"Survey failed", "Failed to fetch"}
TransportErrors == {"Failed to fetch"}

\* one response per persona: the first persona answers one of Texts, the
\* others answer rest
Batches(ps, Texts, rest) ==
    { [ k \in 1..Len(ps) |->
          [persona_id |-> ps[k], response |-> IF k = 1 THEN t ELSE rest] ] : t \in Texts }

\* total_cost of a run of the plot question, and of follow-up question i
PlotRunCost == 1
FollowUpRunCost(i) == i + 2

\* bodies of a successful /api/survey/run response to the plot question
RunReplies(ps) ==
    { [responses |-> b, total_cost |-> PlotRunCost] :
        b \in Batches(ps, PageVoteTexts, "asdkjasd") }

\* bodies of a successful /api/survey/run response to follow-up question q,
\* asked as question i of its run
FollowUpReplies(ps, i, q) ==
    { [responses |-> b, total_cost |-> FollowUpRunCost(i)] :
        b \in Batches(ps, {q.options[1]}, "asdkjasd") }

withIndex(responses, i) ==
    [ k \in 1..Len(responses) |->
        [persona_id |-> responses[k].persona_id, response |-> responses[k].response,
         question_index |-> i] ]

sampleSurvey ==
    << [persona_id |-> 1, response |-> "Allotments"], [persona_id |-> 2, response |-> "Pond"] >>

sampleFollowUp ==
    << [persona_id |-> 1, response |-> "Raised beds", question_index |-> 0],
       [persona_id |-> 1, response |-> "Greenhouse", question_index |-> 1],
       [persona_id |-> 1, response |-> "Gravel", question_index |-> 2] >>

\* contents of /sample-data/02-testing-space-results.json; a key the file does
\* not have is null (modelUsed, generatedImagePath: FALSE)
SampleFiles == {
    [surveyResults |-> Some(sampleSurvey), modelUsed |-> TRUE,
     winningOption |-> Some("Allotments"), followUpResults |-> Some(sampleFollowUp),
     followUpQuestions |-> Some(selectQuestions("Allotments")), generatedImagePath |-> TRUE],
    [surveyResults |-> Some(sampleSurvey), modelUsed |-> TRUE,
     winningOption |-> null, followUpResults |-> Some(sampleFollowUp),
     followUpQuestions |-> Some(<< >>), generatedImagePath |-> FALSE],
    [surveyResults |-> Some(sampleSurvey), modelUsed |-> TRUE,
     winningOption |-> Some("Pond"), followUpResults |-> Some(sampleFollowUp),
     followUpQuestions |-> null, generatedImagePath |-> TRUE] }

-----------------------------------------------------------------------------
(* Suspended handler invocations *)

\* fn: the handler; model: the model named in a pending estimate request
\* ("" for other handlers); i, q: the loop index and question of a follow-up run
Proc(fn, model, i, q) == [fn |-> fn, model |-> model, i |-> i, q |-> q]

Suspend(bag, p) == bag (+) SetToBag({p})
Resume(bag, p) == bag (-) SetToBag({p})

Suspended(fn) == { p \in BagToSet(procs) : p.fn = fn }

\* the survey controls are rendered
controlsShown == ~loadingPersonas /\ Len(personas) > 0

noLedger == [first |-> 0, batchSum |-> 0, batches |-> 0, source |-> "none"]

-----------------------------------------------------------------------------
(* Initial state: the component before onMount has run *)

PageInit ==
    /\ loadingPersonas = TRUE
    /\ personas = << >>
    /\ error = null
    /\ selectedModel = "gpt-4o-mini"
    /\ previousModel = "gpt-4o-mini"
    /\ phase = "intro"
    /\ surveyResults = << >>
    /\ voteTallies = << >>
    /\ totalCost = 0
    /\ costEstimate = null
    /\ followUpQuestions = << >>
    /\ followUpResults = << >>
    /\ followUpCostEstimate = null
    /\ winningOption = null
    /\ useSampleData = FALSE
    /\ sampleData = null
    /\ loadingSampleData = FALSE
    /\ procs = EmptyBag
    /\ ledger = noLedger

Init ==
    /\ PageInit
    /\ failuresLeft = MaxFailures
    /\ input = << >>
    /\ output = << >>
    /\ pc = "page"

-----------------------------------------------------------------------------
(* onMount: the personas arrive, or the fetch fails *)

onMount ==
    /\ loadingPersonas
    /\ \/ /\ personas' = [ k \in 1..NumPersonas |-> k ]
          /\ error' = error
       \/ /\ personas' = personas          \* response not ok
          /\ error' = error
       \/ /\ personas' = personas
          /\ error' = Some("Could not connect to API server. Make sure it is running.")
    /\ loadingPersonas' = FALSE
    /\ UNCHANGED << selectedModel, previousModel, phase, surveyResults, voteTallies, totalCost,
                    costEstimate, followUpQuestions, followUpResults,
                    followUpCostEstimate, winningOption,
                    useSampleData, sampleData, loadingSampleData, procs, ledger, failuresLeft >>
    /\ failuresLeft' = failuresLeft
    /\ UNCHANGED viewVars

-----------------------------------------------------------------------------
(* First survey, live *)

\* "Get Cost Estimate": estimateCost up to its await
estimateCost ==
    /\ controlsShown /\ phase = "intro" /\ ~useSampleData
    /\ BagCardinality(procs) < MaxProcs
    /\ phase' = "estimate"
    /\ procs' = Suspend(procs, Proc("estimateCost", selectedModel, 0, null))
    /\ UNCHANGED << loadingPersonas, personas, error, selectedModel, previousModel,
                    surveyResults, voteTallies, totalCost, costEstimate, followUpQuestions,
                    followUpResults, followUpCostEstimate, winningOption, useSampleData, sampleData, loadingSampleData, ledger >>
    /\ failuresLeft' = failuresLeft
    /\ UNCHANGED viewVars

\* estimateCost resumes with response.ok
estimateCostOk(p) ==
    /\ p.fn = "estimateCost"
    /\ costEstimate' = Some(estimateReply(p.model, Len(personas)))
    /\ procs' = Resume(procs, p)
    /\ UNCHANGED << loadingPersonas, personas, error, selectedModel, previousModel,
                    phase, surveyResults, voteTallies, totalCost, followUpQuestions,
                    followUpResults, followUpCostEstimate, winningOption, useSampleData, sampleData, loadingSampleData, ledger >>
    /\ failuresLeft' = failuresLeft
    /\ UNCHANGED viewVars

\* estimateCost resumes in its catch block
estimateCostFailed(p, msg) ==
    /\ failuresLeft > 0
    /\ failuresLeft' = failuresLeft - 1
    /\ p.fn = "estimateCost"
    /\ error' = Some(msg)
    /\ phase' = "intro"
    /\ procs' = Resume(procs, p)
    /\ UNCHANGED << loadingPersonas, personas, selectedModel, previousModel,
                    surveyResults, voteTallies, totalCost, costEstimate, followUpQuestions,
                    followUpResults, followUpCostEstimate, winningOption, useSampleData, sampleData, loadingSampleData, ledger >>
    /\ UNCHANGED viewVars

\* "Cancel" on the estimate card
cancelEstimate ==
    /\ controlsShown /\ phase = "estimate" /\ costEstimate # null
    /\ costEstimate' = null
    /\ phase' = "intro"
    /\ UNCHANGED << loadingPersonas, personas, error, selectedModel, previousModel,
                    surveyResults, voteTallies, totalCost, followUpQuestions, followUpResults,
                    followUpCostEstimate, winningOption,
                    useSampleData, sampleData, loadingSampleData, procs, ledger, failuresLeft >>
    /\ failuresLeft' = failuresLeft
    /\ UNCHANGED viewVars

\* "Run Survey" on the estimate card: runSurvey up to its await
runSurvey ==
    /\ controlsShown /\ phase = "estimate" /\ costEstimate # null
    /\ BagCardinality(procs) < MaxProcs
    /\ phase' = "surveying"
    /\ surveyResults' = << >>
    /\ voteTallies' = << >>
    /\ totalCost' = 0
    /\ ledger' = [noLedger EXCEPT !.source = "live"]
    /\ procs' = Suspend(procs, Proc("runSurvey", "", 0, null))
    /\ UNCHANGED << loadingPersonas, personas, error, selectedModel, previousModel,
                    costEstimate, followUpQuestions, followUpResults,
                    followUpCostEstimate, winningOption,
                    useSampleData, sampleData, loadingSampleData >>
    /\ failuresLeft' = failuresLeft
    /\ UNCHANGED viewVars

\* winningOption after new results: the first tally entry when there is one
winnerAfter(tallies, current) ==
    IF Len(tallies) > 0 THEN Some(tallies[1][1]) ELSE current

\* runSurvey resumes with response.ok
runSurveyOk(p, data) ==
    /\ p.fn = "runSurvey"
    /\ surveyResults' = data.responses
    /\ voteTallies' = computeVoteTallies(data.responses)
    /\ totalCost' = data.total_cost
    /\ ledger' = [first |-> data.total_cost, batchSum |-> 0, batches |-> 0,
                   source |-> ledger.source]
    /\ phase' = "results"
    /\ winningOption' = winnerAfter(voteTallies', winningOption)
    /\ procs' = Resume(procs, p)
    /\ UNCHANGED << loadingPersonas, personas, error, selectedModel, previousModel,
                    costEstimate, followUpQuestions, followUpResults,
                    followUpCostEstimate, useSampleData, sampleData, loadingSampleData >>
    /\ failuresLeft' = failuresLeft
    /\ UNCHANGED viewVars

\* runSurvey resumes in its catch block
runSurveyFailed(p, msg) ==
    /\ failuresLeft > 0
    /\ failuresLeft' = failuresLeft - 1
    /\ p.fn = "runSurvey"
    /\ error' = Some(msg)
    /\ phase' = "intro"
    /\ procs' = Resume(procs, p)
    /\ UNCHANGED << loadingPersonas, personas, selectedModel, previousModel,
                    surveyResults, voteTallies, totalCost, costEstimate, followUpQuestions,
                    followUpResults, followUpCostEstimate, winningOption, useSampleData, sampleData, loadingSampleData, ledger >>
    /\ UNCHANGED viewVars

-----------------------------------------------------------------------------
(* Model selection and the $effect that recalculates the follow-up estimate *)

\* the model <select> of the survey controls or of the follow-up estimate; the
\* effect then runs recalculateFollowUpCost up to its await
selectModel(m) ==
    /\ m # selectedModel
    /\ ~useSampleData
    /\ \/ controlsShown /\ phase \in {"intro", "estimate"}
       \/ phase = "followup-estimate" /\ Len(followUpQuestions) > 0
    /\ selectedModel' = m
    /\ IF phase = "followup-estimate" /\ m # previousModel /\ Len(followUpQuestions) > 0
       THEN /\ BagCardinality(procs) < MaxProcs
            /\ previousModel' = m
            /\ followUpCostEstimate' =
                 (IF Len(personas) = 0 THEN followUpCostEstimate ELSE null)
            /\ procs' = IF Len(personas) = 0 THEN procs
                        ELSE Suspend(procs, Proc("recalculateFollowUpCost", m, 0, null))
       ELSE UNCHANGED << previousModel, followUpCostEstimate, procs >>
    /\ UNCHANGED << loadingPersonas, personas, error, phase, surveyResults, voteTallies, totalCost,
                    costEstimate, followUpQuestions, followUpResults,
                    winningOption, useSampleData, sampleData,
                    loadingSampleData, ledger >>
    /\ failuresLeft' = failuresLeft
    /\ UNCHANGED viewVars

-----------------------------------------------------------------------------
(* Follow-up survey, live *)

\* "Generate Follow-up Questions": generateFollowUpQuestions, estimateFollowUpCost
\* and recalculateFollowUpCost up to the await, then the model $effect
generateFollowUpQuestions ==
    /\ phase = "results" /\ Len(voteTallies) > 0
    /\ winningOption # null /\ Val(winningOption) # ""
    /\ Len(personas) > 0
    /\ LET questions == selectQuestions(Val(winningOption))
           again == selectedModel # previousModel
           first == Proc("recalculateFollowUpCost", selectedModel, 0, null)
       IN  /\ BagCardinality(procs) + (IF again THEN 2 ELSE 1) <= MaxProcs
           /\ followUpQuestions' = questions
           /\ phase' = "followup-estimate"
           /\ followUpCostEstimate' = null
           /\ previousModel' = selectedModel
           /\ procs' = IF again THEN Suspend(Suspend(procs, first), first)
                       ELSE Suspend(procs, first)
    /\ UNCHANGED << loadingPersonas, personas, error, selectedModel, surveyResults, voteTallies,
                    totalCost, costEstimate, followUpResults, winningOption, useSampleData, sampleData, loadingSampleData, ledger >>
    /\ failuresLeft' = failuresLeft
    /\ UNCHANGED viewVars

\* the follow-up estimate built from the single-question estimate
scaleEstimate(estimate) ==
    [num_agents |-> estimate.num_agents,
     prompt_tokens |-> estimate.prompt_tokens * 3,
     completion_tokens |-> estimate.completion_tokens * 3,
     cost_per_agent |-> estimate.cost_per_agent * 3,
     total_cost |-> estimate.total_cost * 3,
     num_questions |-> 3,
     model |-> estimate.model]

\* recalculateFollowUpCost resumes with response.ok
recalculateFollowUpCostOk(p) ==
    /\ p.fn = "recalculateFollowUpCost"
    /\ followUpCostEstimate' = Some(scaleEstimate(estimateReply(p.model, Len(personas))))
    /\ procs' = Resume(procs, p)
    /\ UNCHANGED << loadingPersonas, personas, error, selectedModel, previousModel,
                    phase, surveyResults, voteTallies, totalCost, costEstimate, followUpQuestions,
                    followUpResults, winningOption,
                    useSampleData, sampleData, loadingSampleData, ledger >>
    /\ failuresLeft' = failuresLeft
    /\ UNCHANGED viewVars

\* recalculateFollowUpCost resumes in its catch block
recalculateFollowUpCostFailed(p, msg) ==
    /\ failuresLeft > 0
    /\ failuresLeft' = failuresLeft - 1
    /\ p.fn = "recalculateFollowUpCost"
    /\ error' = Some(msg)
    /\ phase' = "results"
    /\ procs' = Resume(procs, p)
    /\ UNCHANGED << loadingPersonas, personas, selectedModel, previousModel,
                    surveyResults, voteTallies, totalCost, costEstimate, followUpQuestions,
                    followUpResults, followUpCostEstimate, winningOption, useSampleData, sampleData, loadingSampleData, ledger >>
    /\ UNCHANGED viewVars

\* "Back to Results"
backToResults ==
    /\ phase = "followup-estimate" /\ Len(followUpQuestions) > 0
    /\ useSampleData \/ followUpCostEstimate # null
    /\ phase' = "results"
    /\ UNCHANGED << loadingPersonas, personas, error, selectedModel, previousModel,
                    surveyResults, voteTallies, totalCost, costEstimate, followUpQuestions,
                    followUpResults, followUpCostEstimate, winningOption, useSampleData, sampleData, loadingSampleData,
                    procs, ledger >>
    /\ failuresLeft' = failuresLeft
    /\ UNCHANGED viewVars

\* "Run Follow-up Survey": runFollowUpSurvey up to the await of question 0
runFollowUpSurvey ==
    /\ phase = "followup-estimate" /\ Len(followUpQuestions) > 0
    /\ ~useSampleData /\ followUpCostEstimate # null
    /\ BagCardinality(procs) < MaxProcs
    /\ totalCost < MaxTotalCost
    /\ phase' = "followup-surveying"
    /\ followUpResults' = << >>
    /\ procs' = Suspend(procs, Proc("runFollowUpSurvey", "", 0,
                                   Some(followUpQuestions[1])))
    /\ ledger' = [ledger EXCEPT !.source = "live"]
    /\ UNCHANGED << loadingPersonas, personas, error, selectedModel, previousModel,
                    surveyResults, voteTallies, totalCost, costEstimate, followUpQuestions,
                    followUpCostEstimate, winningOption, useSampleData, sampleData,
                    loadingSampleData >>
    /\ failuresLeft' = failuresLeft
    /\ UNCHANGED viewVars

\* the for loop of runFollowUpSurvey after the body of iteration p.i:
\* the next request, or the end of the loop
followUpLoop(p) ==
    LET i == p.i + 1
    IN  IF i < Len(followUpQuestions)
        THEN /\ procs' = Suspend(Resume(procs, p),
                              Proc("runFollowUpSurvey", "", i, Some(followUpQuestions[i + 1])))
             /\ phase' = phase
        ELSE /\ procs' = Resume(procs, p)
             /\ phase' = "followup-results"

\* totalCost after the response of one follow-up question
addBatchCost_perResponse(total, data) == total + data.total_cost * Len(data.responses)

addBatchCost(total, data) == total + data.total_cost

\* runFollowUpSurvey resumes with response.ok for question p.i
followUpBatchOk(p, data) ==
    /\ p.fn = "runFollowUpSurvey"
    /\ followUpResults' = followUpResults \o withIndex(data.responses, p.i)
    /\ totalCost' = addBatchCost(totalCost, data)
    /\ ledger' = [ledger EXCEPT !.batchSum = @ + data.total_cost, !.batches = @ + 1]
    /\ followUpLoop(p)
    /\ UNCHANGED << loadingPersonas, personas, error, selectedModel, previousModel,
                    surveyResults, voteTallies, costEstimate, followUpQuestions,
                    followUpCostEstimate, winningOption, useSampleData, sampleData,
                    loadingSampleData >>
    /\ failuresLeft' = failuresLeft
    /\ UNCHANGED viewVars

\* runFollowUpSurvey resumes with a response that is not ok: the if is skipped
followUpBatchNotOk(p) ==
    /\ failuresLeft > 0
    /\ failuresLeft' = failuresLeft - 1
    /\ p.fn = "runFollowUpSurvey"
    /\ followUpLoop(p)
    /\ UNCHANGED << loadingPersonas, personas, error, selectedModel, previousModel,
                    surveyResults, voteTallies, totalCost, costEstimate, followUpQuestions,
                    followUpResults, followUpCostEstimate, winningOption,
                    useSampleData, sampleData, loadingSampleData, ledger >>
    /\ UNCHANGED viewVars

\* runFollowUpSurvey resumes in its catch block: fetch rejected
followUpBatchThrown(p, msg) ==
    /\ failuresLeft > 0
    /\ failuresLeft' = failuresLeft - 1
    /\ p.fn = "runFollowUpSurvey"
    /\ error' = Some(msg)
    /\ phase' = "results"
    /\ procs' = Resume(procs, p)
    /\ UNCHANGED << loadingPersonas, personas, selectedModel, previousModel,
                    surveyResults, voteTallies, totalCost, costEstimate, followUpQuestions,
                    followUpResults, followUpCostEstimate, winningOption, useSampleData, sampleData, loadingSampleData, ledger >>
    /\ UNCHANGED viewVars

\* "Start Over"
reset_keepsResults ==
    /\ phase = "followup-results"
    /\ phase' = "intro"
    /\ surveyResults' = << >>
    /\ voteTallies' = << >>
    /\ followUpQuestions' = << >>
    /\ costEstimate' = null
    /\ followUpCostEstimate' = null
    /\ totalCost' = 0
    /\ ledger' = noLedger
    /\ winningOption' = null
    /\ UNCHANGED << loadingPersonas, personas, error, selectedModel, previousModel,
                    followUpResults, useSampleData, sampleData,
                    loadingSampleData, procs >>
    /\ failuresLeft' = failuresLeft
    /\ UNCHANGED viewVars

reset ==
    /\ phase = "followup-results"
    /\ phase' = "intro"
    /\ surveyResults' = << >>
    /\ voteTallies' = << >>
    /\ followUpResults' = << >>
    /\ followUpQuestions' = << >>
    /\ costEstimate' = null
    /\ followUpCostEstimate' = null
    /\ totalCost' = 0
    /\ ledger' = noLedger
    /\ winningOption' = null
    /\ UNCHANGED << loadingPersonas, personas, error, selectedModel, previousModel,
                    useSampleData, sampleData,
                    loadingSampleData, procs >>
    /\ failuresLeft' = failuresLeft
    /\ UNCHANGED viewVars

-----------------------------------------------------------------------------
(* Sample-data mode *)

\* the "Live LLM" / "Sample Data" toggle, then the $effect that loads the file
setUseSampleData(b) ==
    /\ controlsShown /\ phase \in {"intro", "estimate"}
    /\ b # useSampleData
    /\ useSampleData' = b
    /\ IF b /\ sampleData = null /\ ~loadingSampleData
       THEN /\ BagCardinality(procs) < MaxProcs
            /\ loadingSampleData' = TRUE
            /\ procs' = Suspend(procs, Proc("loadSampleDataFile", "", 0, null))
       ELSE UNCHANGED << loadingSampleData, procs >>
    /\ UNCHANGED << loadingPersonas, personas, error, selectedModel, previousModel,
                    phase, surveyResults, voteTallies, totalCost, costEstimate, followUpQuestions,
                    followUpResults, followUpCostEstimate, winningOption, sampleData, ledger >>
    /\ failuresLeft' = failuresLeft
    /\ UNCHANGED viewVars

\* loadSampleDataFile resumes with res.ok
loadSampleDataFileOk(p, file) ==
    /\ p.fn = "loadSampleDataFile"
    /\ sampleData' = Some(file)
    /\ loadingSampleData' = FALSE
    /\ procs' = Resume(procs, p)
    /\ UNCHANGED << loadingPersonas, personas, error, selectedModel, previousModel,
                    phase, surveyResults, voteTallies, totalCost, costEstimate, followUpQuestions,
                    followUpResults, followUpCostEstimate, winningOption, useSampleData, ledger >>
    /\ failuresLeft' = failuresLeft
    /\ UNCHANGED viewVars

SampleLoadErrors ==
    {"Sample data not found. Run a survey with Live LLM first, then download the results.",
     "Could not load sample data file."}

\* loadSampleDataFile ends without data; with the toggle still on sample data the
\* $effect starts the next load at once
loadSampleDataFileFailed(p, msg) ==
    /\ failuresLeft > 0
    /\ failuresLeft' = failuresLeft - 1
    /\ p.fn = "loadSampleDataFile"
    /\ error' = Some(msg)
    /\ IF useSampleData
       THEN UNCHANGED << loadingSampleData, procs >>
       ELSE /\ loadingSampleData' = FALSE
            /\ procs' = Resume(procs, p)
    /\ UNCHANGED << loadingPersonas, personas, selectedModel, previousModel,
                    phase, surveyResults, voteTallies, totalCost, costEstimate, followUpQuestions,
                    followUpResults, followUpCostEstimate, winningOption, useSampleData, sampleData, ledger >>
    /\ UNCHANGED viewVars

\* "Run Survey" in sample mode: runSurveyWithSampleData up to its timer; a file
\* without modelUsed makes the handler throw before it changes anything
runSurveyWithSampleData ==
    /\ controlsShown /\ phase = "intro" /\ useSampleData /\ sampleData # null
    /\ IF Val(sampleData).surveyResults = null
       THEN /\ error' = Some("No sample survey data available.")
            /\ UNCHANGED << phase, surveyResults, voteTallies, totalCost, ledger, procs >>
       ELSE /\ Val(sampleData).modelUsed
            /\ BagCardinality(procs) < MaxProcs
            /\ phase' = "surveying"
            /\ surveyResults' = << >>
            /\ voteTallies' = << >>
            /\ totalCost' = 0
            /\ ledger' = [noLedger EXCEPT !.source = "sample"]
            /\ procs' = Suspend(procs, Proc("runSurveyWithSampleData", "", 0, null))
            /\ error' = error
    /\ UNCHANGED << loadingPersonas, personas, selectedModel, previousModel,
                    costEstimate, followUpQuestions, followUpResults,
                    followUpCostEstimate, winningOption,
                    useSampleData, sampleData, loadingSampleData >>
    /\ failuresLeft' = failuresLeft
    /\ UNCHANGED viewVars

\* runSurveyWithSampleData resumes after its 800 ms timer
sampleSurveyTimer(p) ==
    /\ p.fn = "runSurveyWithSampleData"
    /\ surveyResults' = Val(Val(sampleData).surveyResults)
    /\ voteTallies' = computeVoteTallies(Val(Val(sampleData).surveyResults))
    /\ totalCost' = 0
    /\ ledger' = [noLedger EXCEPT !.source = ledger.source]
    /\ phase' = "results"
    /\ winningOption' =
         IF Val(sampleData).winningOption # null /\ Val(sampleData).winningOption # Some("")
         THEN Val(sampleData).winningOption
         ELSE winnerAfter(voteTallies', winningOption)
    /\ procs' = Resume(procs, p)
    /\ UNCHANGED << loadingPersonas, personas, error, selectedModel, previousModel,
                    costEstimate, followUpQuestions, followUpResults,
                    followUpCostEstimate, useSampleData, sampleData, loadingSampleData >>
    /\ failuresLeft' = failuresLeft
    /\ UNCHANGED viewVars

\* the end of runFollowUpSurveyWithSampleData after its loop: the results are
\* taken from the file; without generatedImagePath the handler throws before
\* it sets the phase
sampleFollowUpEnd(current) ==
    /\ followUpResults' = Val(Val(sampleData).followUpResults)
    /\ phase' = IF Val(sampleData).generatedImagePath THEN "followup-results" ELSE current

\* "Run Follow-up Survey (Sample Data)": runFollowUpSurveyWithSampleData up to
\* its first timer, or to its end when there is no question to loop over
runFollowUpSurveyWithSampleData ==
    /\ phase = "followup-estimate" /\ Len(followUpQuestions) > 0
    /\ useSampleData /\ sampleData # null /\ Val(sampleData).followUpResults # null
    /\ followUpQuestions' = IF Val(sampleData).followUpQuestions # null
                            THEN Val(Val(sampleData).followUpQuestions)
                            ELSE followUpQuestions
    /\ IF Len(followUpQuestions') > 0
       THEN /\ BagCardinality(procs) < MaxProcs
            /\ phase' = "followup-surveying"
            /\ followUpResults' = << >>
            /\ procs' = Suspend(procs, Proc("runFollowUpSurveyWithSampleData",
                                           "", 0, null))
       ELSE /\ sampleFollowUpEnd("followup-surveying")
            /\ procs' = procs
    /\ UNCHANGED << loadingPersonas, personas, error, selectedModel, previousModel,
                    surveyResults, voteTallies, totalCost, costEstimate, followUpCostEstimate,
                    winningOption, useSampleData, sampleData, loadingSampleData, ledger >>
    /\ failuresLeft' = failuresLeft
    /\ UNCHANGED viewVars

\* runFollowUpSurveyWithSampleData resumes after a 500 ms timer
sampleFollowUpTimer(p) ==
    /\ p.fn = "runFollowUpSurveyWithSampleData"
    /\ LET i == p.i + 1
       IN  IF i < Len(followUpQuestions)
           THEN /\ procs' = Suspend(Resume(procs, p), [p EXCEPT !.i = i])
                /\ UNCHANGED << phase, followUpResults >>
           ELSE /\ sampleFollowUpEnd(phase)
                /\ procs' = Resume(procs, p)
    /\ UNCHANGED << loadingPersonas, personas, error, selectedModel, previousModel,
                    surveyResults, voteTallies, totalCost, costEstimate, followUpQuestions,
                    followUpCostEstimate, winningOption, useSampleData, sampleData,
                    loadingSampleData, ledger >>
    /\ failuresLeft' = failuresLeft
    /\ UNCHANGED viewVars

-----------------------------------------------------------------------------
(* Specifications *)

\* the page with the data source left on "Live LLM"
NextLive ==
    \/ onMount
    \/ estimateCost
    \/ \E p \in BagToSet(procs) : estimateCostOk(p)
    \/ \E p \in BagToSet(procs), msg \in EstimateErrors : estimateCostFailed(p, msg)
    \/ cancelEstimate
    \/ runSurvey
    \/ \E p \in Suspended("runSurvey") :
          \E data \in RunReplies(personas) : runSurveyOk(p, data)
    \/ \E p \in BagToSet(procs), msg \in RunErrors : runSurveyFailed(p, msg)
    \/ \E m \in Models : selectModel(m)
    \/ generateFollowUpQuestions
    \/ \E p \in BagToSet(procs) : recalculateFollowUpCostOk(p)
    \/ \E p \in BagToSet(procs), msg \in EstimateErrors : recalculateFollowUpCostFailed(p, msg)
    \/ backToResults
    \/ runFollowUpSurvey
    \/ \E p \in Suspended("runFollowUpSurvey") :
          \E data \in FollowUpReplies(personas, p.i, Val(p.q)) :
             followUpBatchOk(p, data)
    \/ \E p \in BagToSet(procs) : followUpBatchNotOk(p)
    \/ \E p \in BagToSet(procs), msg \in TransportErrors : followUpBatchThrown(p, msg)
    \/ reset

SpecLive == Init /\ [][NextLive]_vars

\* the page with both data sources
Next ==
    \/ NextLive
    \/ \E b \in BOOLEAN : setUseSampleData(b)
    \/ \E p \in BagToSet(procs), file \in SampleFiles : loadSampleDataFileOk(p, file)
    \/ \E p \in BagToSet(procs), msg \in SampleLoadErrors : loadSampleDataFileFailed(p, msg)
    \/ runSurveyWithSampleData
    \/ \E p \in BagToSet(procs) : sampleSurveyTimer(p)
    \/ runFollowUpSurveyWithSampleData
    \/ \E p \in BagToSet(procs) : sampleFollowUpTimer(p)

Spec == Init /\ [][Next]_vars

\* the page when every request and every timer is eventually answered; the
\* user's clicks are not forced
estimateAnswered ==
    \/ \E p \in BagToSet(procs) : estimateCostOk(p)
    \/ \E p \in BagToSet(procs), msg \in EstimateErrors : estimateCostFailed(p, msg)

runAnswered ==
    \/ \E p \in Suspended("runSurvey") :
          \E data \in RunReplies(personas) : runSurveyOk(p, data)
    \/ \E p \in BagToSet(procs), msg \in RunErrors : runSurveyFailed(p, msg)

followUpEstimateAnswered ==
    \/ \E p \in BagToSet(procs) : recalculateFollowUpCostOk(p)
    \/ \E p \in BagToSet(procs), msg \in EstimateErrors : recalculateFollowUpCostFailed(p, msg)

followUpRunAnswered ==
    \/ \E p \in Suspended("runFollowUpSurvey") :
          \E data \in FollowUpReplies(personas, p.i, Val(p.q)) : followUpBatchOk(p, data)
    \/ \E p \in BagToSet(procs) : followUpBatchNotOk(p)
    \/ \E p \in BagToSet(procs), msg \in TransportErrors : followUpBatchThrown(p, msg)

sampleLoadAnswered ==
    \/ \E p \in BagToSet(procs), file \in SampleFiles : loadSampleDataFileOk(p, file)
    \/ \E p \in BagToSet(procs), msg \in SampleLoadErrors : loadSampleDataFileFailed(p, msg)

sampleSurveyTimerFired == \E p \in BagToSet(procs) : sampleSurveyTimer(p)

sampleFollowUpTimerFired == \E p \in BagToSet(procs) : sampleFollowUpTimer(p)

\* runAnswered and sampleSurveyTimerFired are enabled exactly when their
\* invocation is suspended; their weak fairness is written with that predicate
SpecFair ==
    /\ Spec
    /\ WF_vars(estimateAnswered)
    /\ []<>(Suspended("runSurvey") = {}) \/ []<><<runAnswered>>_vars
    /\ WF_vars(followUpEstimateAnswered)
    /\ WF_vars(followUpRunAnswered)
    /\ WF_vars(sampleLoadAnswered)
    /\ []<>(Suspended("runSurveyWithSampleData") = {}) \/ []<><<sampleSurveyTimerFired>>_vars
    /\ WF_vars(sampleFollowUpTimerFired)

\* the first survey on its own, with room for more failed requests
FirstRunInit ==
    /\ PageInit
    /\ failuresLeft = MaxFirstRunFailures
    /\ input = << >>
    /\ output = << >>
    /\ pc = "page"

NextFirstRun ==
    \/ onMount
    \/ estimateCost
    \/ \E p \in BagToSet(procs) : estimateCostOk(p)
    \/ \E p \in BagToSet(procs), msg \in EstimateErrors : estimateCostFailed(p, msg)
    \/ cancelEstimate
    \/ runSurvey
    \/ \E p \in Suspended("runSurvey") :
          \E data \in RunReplies(personas) : runSurveyOk(p, data)
    \/ \E p \in BagToSet(procs), msg \in RunErrors : runSurveyFailed(p, msg)

SpecFirstRun == FirstRunInit /\ [][NextFirstRun]_vars

-----------------------------------------------------------------------------
(* The tally on its own: voteTallies for an arbitrary surveyResults *)

\* response texts: an option label, a label in other case with white space
\* around it, the empty response and one of white space only, a response that
\* names no option, and one that shares three words with an option without
\* containing its label, and a sentence that names an option
TallyTexts == {"Allotments", "  POND ", "", "  ", "asdkjasd", "entrance urban caving",
               "I'd vote for the playground"}

ResponseLists ==
    UNION { [1..n -> { [persona_id |-> 1, response |-> t] : t \in TallyTexts }] :
              n \in 0..MaxResponses }

TallyInit ==
    /\ PageInit
    /\ failuresLeft = 0
    /\ input \in ResponseLists
    /\ output = << >>
    /\ pc = "ready"

\* the derived voteTallies is recomputed for the surveyResults in input
tally ==
    /\ pc = "ready"
    /\ output' = computeVoteTallies(input)
    /\ pc' = "done"
    /\ UNCHANGED << pageVars, input >>

SpecTally == TallyInit /\ [][tally]_vars

-----------------------------------------------------------------------------
(* The cohort on its own: topChoiceVoters for arbitrary surveyResults *)

\* response texts: a label, a response naming two options, one naming none,
\* the empty response, and a word of a label without and with a trailing space
CohortTexts == {"Pond", "pond and allotments", "asdkjasd", "", "Forest", "Forest "}

\* surveyResults of up to MaxResponses responses, response k from persona k;
\* the personas are 1..NumPersonas, so a longer list has responses whose
\* persona is not among them
CohortInputs ==
    UNION { { [results |-> [ k \in 1..n |-> [persona_id |-> k, response |-> f[k]] ],
               personas |-> [ k \in 1..NumPersonas |-> k ]] :
                f \in [1..n -> CohortTexts] } : n \in 0..MaxResponses }

CohortInit ==
    /\ PageInit
    /\ failuresLeft = 0
    /\ input \in CohortInputs
    /\ output = << >>
    /\ pc = "ready"

\* voteTallies and then topChoiceVoters are recomputed for input
cohort ==
    /\ pc = "ready"
    /\ output' = topChoiceVoters(computeVoteTallies(input.results), input.results,
                                 input.personas)
    /\ pc' = "done"
    /\ UNCHANGED << pageVars, input >>

SpecCohort == CohortInit /\ [][cohort]_vars

-----------------------------------------------------------------------------
(* Follow-up selection on its own: the questions for one winning option *)

Range(seq) == { seq[i] : i \in 1..Len(seq) }

\* winning options of experiment 02: a label of the plot question or 'Other',
\* or the winningOption of a sample-data file
PlotWinners ==
    Range(plotOptions) \cup {"Other"}
      \cup { toLowerCase(plotOptions[i]) : i \in 1..Len(plotOptions) }
      \cup {"URBAN FOREST", "Car Park"}

\* winning options of experiment 01: a label of the garden question or 'Other'
GardenWinners == Range(gardenOptions) \cup {"Other"}

SelectInit ==
    /\ PageInit
    /\ failuresLeft = 0
    /\ input \in { [page |-> 2, winning |-> w] : w \in PlotWinners }
                 \cup { [page |-> 1, winning |-> w] : w \in GardenWinners }
    /\ output = << >>
    /\ pc = "ready"

\* generateFollowUpQuestions of experiment 02 up to followUpQuestions = questions
selectPlot ==
    /\ pc = "ready" /\ input.page = 2
    /\ output' = selectQuestions(input.winning)
    /\ pc' = "done"
    /\ UNCHANGED << pageVars, input >>

\* generateFollowUpQuestions of experiment 01 up to followUpQuestions = questions
selectGarden ==
    /\ pc = "ready" /\ input.page = 1
    /\ output' = selectGardenQuestions(input.winning)
    /\ pc' = "done"
    /\ UNCHANGED << pageVars, input >>

SpecSelect == SelectInit /\ [][selectPlot \/ selectGarden]_vars

-----------------------------------------------------------------------------
(* Classification on its own: one response against one option list *)

\* a follow-up question as a sample-data file may supply it
nestedQuestion ==
    [id |-> "water", text |-> "Which water feature?",
     options |-> << "Pond", "Pond dipping platform" >>]

\* the follow-up questions of both experiments
CatalogQuestions ==
    UNION { Range(followUpCatalog[c].questions) : c \in 1..Len(followUpCatalog) }
      \cup Range(genericQuestions)
      \cup UNION { Range(gardenCatalog[c].questions) : c \in 1..Len(gardenCatalog) }
      \cup Range(gardenGenericQuestions)

\* responses that are no label: overlap with an earlier option and containment
\* of a later one, overlap only, two labels, no option, two overlapping words,
\* a response word inside an option word, an empty word between two spaces;
\* for the garden options overlap with two options
VoteTexts(options) ==
    IF options = plotOptions
    THEN {"entrance urban caving portacabins", "entrance urban caving",
          "pond and allotments", "asdkjasd",
          "caving urban", "entranc urban caving", "zzz  yyy", "qqzxpy nonsense"}
    ELSE {"garden with fruit trees and shared plots", "qqzxpy nonsense"}

ClassifyInputs ==
    { [kind |-> "vote", options |-> o, response |-> t] :
        o \in {plotOptions}, t \in Range(plotOptions) \cup VoteTexts(plotOptions) }
      \cup { [kind |-> "vote", options |-> o, response |-> t] :
        o \in {gardenOptions}, t \in Range(gardenOptions) \cup VoteTexts(gardenOptions) }
      \cup UNION { { [kind |-> "followup", options |-> q.options, response |-> t] :
                      t \in Range(q.options) } : q \in CatalogQuestions \cup {nestedQuestion} }

ClassifyInit ==
    /\ PageInit
    /\ failuresLeft = 0
    /\ input \in ClassifyInputs
    /\ output = << >>
    /\ pc = "ready"

\* the body of the forEach callback of voteTallies for one response
classifyVote ==
    /\ pc = "ready" /\ input.kind = "vote"
    /\ output' = classify(input.options, [response |-> input.response])
    /\ pc' = "done"
    /\ UNCHANGED << pageVars, input >>

\* the body of the forEach callback of followUpTallies for one response
classifyFollowUp ==
    /\ pc = "ready" /\ input.kind = "followup"
    /\ output' = followUpBuckets([options |-> input.options], [response |-> input.response])
    /\ pc' = "done"
    /\ UNCHANGED << pageVars, input >>

SpecClassify == ClassifyInit /\ [][classifyVote \/ classifyFollowUp]_vars

-----------------------------------------------------------------------------
(* Properties *)

counted(tallies) == SumSeq([ i \in 1..Len(tallies) |-> tallies[i][2] ])

TallyLabels == { plotOptions[i] : i \in 1..Len(plotOptions) } \cup {"Other"}

\* C1: the counts of voteTallies sum to the number of responses tallied; every
\* response is counted in exactly one bucket, an option label or "Other"
C1_TalliesSumToResponses ==
    pc = "done" =>
        /\ counted(output) = Len(input)
        /\ \A i \in 1..Len(output) : output[i][1] \in TallyLabels
        /\ \A k \in 1..Len(input) : Len(voteBuckets(input[k])) = 1

C1_Witness ==
    /\ pc = "done"
    /\ Len(input) >= 2
    /\ \E i \in 1..Len(output) : output[i][1] = "Other"
    /\ \E i \in 1..Len(output) : output[i][1] = "Urban caving entrance"

-----------------------------------------------------------------------------

RunProcs == { p \in BagToSet(procs) : p.fn \in {"runSurvey", "runFollowUpSurvey"} }

RunsInFlight == BagCardinality([ p \in RunProcs |-> procs[p] ])

ForwardEdges ==
    { << "intro", "estimate" >>, << "estimate", "surveying" >>, << "surveying", "results" >>,
      << "results", "followup-estimate" >>, << "followup-estimate", "followup-surveying" >>,
      << "followup-surveying", "followup-results" >> }

Phases ==
    { "intro", "estimate", "surveying", "results", "followup-estimate",
      "followup-surveying", "followup-results" }

ResetEdges == { << ph, "intro" >> : ph \in Phases }

ErrorEdges ==
    { << "estimate", "intro" >>, << "surveying", "intro" >>,
      << "followup-estimate", "results" >>, << "followup-surveying", "results" >> }

\* C2: every change of phase is a forward edge of the phase machine, an edge
\* to intro, or an error edge from estimate or surveying to intro or from
\* followup-estimate or followup-surveying to results
C2_PhaseMachine ==
    [][phase' # phase =>
         << phase, phase' >> \in ForwardEdges \cup ResetEdges \cup ErrorEdges]_vars

answered(results, i) == \E k \in 1..Len(results) : results[k].question_index = i

\* C3: a follow-up run enters followup-results only when the request of every
\* follow-up question succeeded, so that every question has its responses
C3_FollowUpResultsOnlyIfAllSucceeded ==
    [][(phase # "followup-results" /\ phase' = "followup-results") =>
         \A i \in 0..(Len(followUpQuestions') - 1) : answered(followUpResults', i)]_vars

\* C4: after a failed estimate request the estimate is null, the error is set
\* and phase is intro (first survey) or results (follow-up)
C4_FailedEstimateLeavesNoEstimate ==
    [][/\ (\E p \in BagToSet(procs), msg \in EstimateErrors : estimateCostFailed(p, msg))
           => (costEstimate' = null /\ error' # null /\ phase' = "intro")
       /\ (\E p \in BagToSet(procs), msg \in EstimateErrors :
               recalculateFollowUpCostFailed(p, msg))
           => (followUpCostEstimate' = null /\ error' # null /\ phase' = "results")]_vars

\* C5: after a failed run request of the first survey the error is set, phase
\* is intro and surveyResults is empty
C5_FailedFirstRunLeavesNoResults ==
    [][(\E p \in BagToSet(procs), msg \in RunErrors : runSurveyFailed(p, msg))
         => (error' # null /\ phase' = "intro" /\ surveyResults' = << >>)]_vars

\* C6: in phase followup-results only reset changes phase, and it sets intro
C6_OnlyResetLeavesFollowUpResults ==
    [][(phase = "followup-results" /\ phase' # "followup-results")
         => (reset /\ phase' = "intro")]_vars

\* C7: in phase followup-surveying followUpQuestions is not empty
C7_QuestionsWhileFollowUpSurveying ==
    phase = "followup-surveying" => Len(followUpQuestions) > 0

\* C8: reset sets phase to intro, empties surveyResults, followUpResults and
\* followUpQuestions, sets costEstimate, followUpCostEstimate and winningOption
\* to null and totalCost to 0
C8_ResetDiscardsSurveyState ==
    [][reset =>
         /\ phase' = "intro"
         /\ surveyResults' = << >> /\ followUpResults' = << >> /\ followUpQuestions' = << >>
         /\ costEstimate' = null /\ followUpCostEstimate' = null /\ winningOption' = null
         /\ totalCost' = 0]_vars

\* a state only reset leads to: back in intro with nothing accumulated, after a
\* follow-up estimate for the other model and without any failed request
C8_Witness ==
    /\ phase = "intro" /\ previousModel = "gpt-4o" /\ failuresLeft = MaxFailures
    /\ personas # << >> /\ surveyResults = << >> /\ followUpResults = << >>
    /\ followUpQuestions = << >> /\ costEstimate = null /\ followUpCostEstimate = null
    /\ winningOption = null /\ totalCost = 0

\* C9: at most one run request is in flight at any time
C9_OneRunRequestInFlight == RunsInFlight <= 1

\* C10: totalCost is the total_cost of the first run plus the total_cost of
\* every follow-up batch that succeeded since, each added once; after a cycle
\* without a failed request it is the cost of the first run plus the costs of
\* the k follow-up batches
C10_TotalCostIsSumOfBatches ==
    /\ totalCost = ledger.first + ledger.batchSum
    /\ (phase = "followup-results" /\ failuresLeft = MaxFailures) =>
          totalCost = PlotRunCost
                      + SumSeq([ i \in 1..Len(followUpQuestions) |-> FollowUpRunCost(i - 1) ])

C10_Witness ==
    /\ phase = "followup-results" /\ failuresLeft = MaxFailures
    /\ Len(followUpQuestions) = 3 /\ ledger.batches = 3
    /\ totalCost = 10

-----------------------------------------------------------------------------

\* the responses of results that the tally counted under label, each with the
\* persona of its persona_id
classifiedTo(label, results, ps) ==
    LET Counted(r) == voteBuckets(r) = << label >>
        chosen == SelectSeq(results, Counted)
    IN  [ k \in 1..Len(chosen) |->
            [persona_id |-> chosen[k].persona_id, response |-> chosen[k].response,
             persona |-> findPersona(ps, chosen[k].persona_id)] ]

\* C11: topChoiceVoters is exactly the responses the tally classified to the top
\* label of voteTallies, each joined with the persona of its persona_id, so
\* its size is the top label's count
C11_TopChoiceVotersAreTopLabel ==
    pc = "done" =>
        LET tallies == computeVoteTallies(input.results)
        IN  IF Len(tallies) = 0 THEN output = << >>
            ELSE /\ output = classifiedTo(tallies[1][1], input.results, input.personas)
                 /\ Len(output) = tallies[1][2]

-----------------------------------------------------------------------------

\* position of the option whose text is exactly the response, 0 when none
exactOption(options, response) ==
    IF \E j \in 1..Len(options) : options[j] = response
    THEN CHOOSE j \in 1..Len(options) : options[j] = response
    ELSE 0

\* no earlier option's lowercased label contains, or is contained in, option j's
noEarlierOverlap(options, j) ==
    \A i \in 1..(j - 1) :
        /\ ~includes(toLowerCase(options[i]), toLowerCase(options[j]))
        /\ ~includes(toLowerCase(options[j]), toLowerCase(options[i]))

\* the option lists of the two pages
PageOptionLists == {plotOptions, gardenOptions} \cup { q.options : q \in CatalogQuestions }

pageListsUnshadowed ==
    \A options \in PageOptionLists : \A j \in 1..Len(options) : noEarlierOverlap(options, j)

C13_TiersInStrictPriority ==
    (pc = "done" /\ input.kind = "vote") =>
        LET options == input.options
            response == trim(toLowerCase(input.response))
            Direct(i) == contains(response, options[i])
            Fuzzy(i) == Len(overlap(response, options[i])) >= 3
            n == Len(options)
        IN  /\ \A i \in 1..n :
                  (Direct(i) /\ \A h \in 1..(i - 1) : ~Direct(h)) => output = << options[i] >>
            /\ \A i \in 1..n :
                  ( /\ \A h \in 1..n : ~Direct(h)
                    /\ Fuzzy(i) /\ \A h \in 1..(i - 1) : ~Fuzzy(h) ) => output = << options[i] >>
            /\ (\A h \in 1..n : ~Direct(h) /\ ~Fuzzy(h)) => output = << "Other" >>

\* a response with three words of an earlier option that contains a later one
C13_Witness ==
    /\ pc = "done" /\ input.kind = "vote"
    /\ input.response = "entrance urban caving portacabins"
    /\ Len(overlap(input.response, "Urban caving entrance")) >= 3
    /\ output = << "Portacabins" >>

-----------------------------------------------------------------------------

\* position of a label in the declaration order, 'Other' after all options
declared(label) ==
    IF label \in Range(plotOptions)
    THEN CHOOSE i \in 1..Len(plotOptions) : plotOptions[i] = label
    ELSE Len(plotOptions) + 1

\* C14: voteTallies is ordered by non-increasing count, entries of equal count
\* in the declaration order of the options with 'Other' after them, so the
\* winning option among equal top counts is the first-declared one
C14_TalliesOrderedStably ==
    pc = "done" =>
        \A i, j \in 1..Len(output) :
            i < j => \/ output[i][2] > output[j][2]
                     \/ /\ output[i][2] = output[j][2]
                        /\ declared(output[i][1]) < declared(output[j][1])

\* 'Other' counted first and Pond before Allotments, all with one response
C14_Witness ==
    /\ pc = "done"
    /\ Len(input) = 3 /\ input[1].response = "asdkjasd" /\ input[2].response = "  POND "
    /\ output = << << "Allotments", 1 >>, << "Pond", 1 >>, << "Other", 1 >> >>

-----------------------------------------------------------------------------

\* the catalog and the fallback of a page, and the text its keywords are
\* tested against
catalogOf(page) == IF page = 1 THEN gardenCatalog ELSE followUpCatalog
fallbackOf(page) == IF page = 1 THEN gardenGenericQuestions ELSE genericQuestions
testedText(page, winning) == IF page = 1 THEN winning ELSE toLowerCase(winning)

hasKeyword(category, text) ==
    \E k \in 1..Len(category.keywords) : includes(text, category.keywords[k])

\* C15: selection yields exactly the 3 questions of the first category, in
\* catalog order, one of whose keywords is contained in the text, or the 3
\* generic questions when no category matches; never another number
C15_SelectionIsFirstMatchOrFallback ==
    pc = "done" =>
        LET catalog == catalogOf(input.page)
            text == testedText(input.page, input.winning)
        IN  /\ Len(output) = 3
            /\ \A c \in 1..Len(catalog) :
                  ( /\ hasKeyword(catalog[c], text)
                    /\ \A d \in 1..(c - 1) : ~hasKeyword(catalog[d], text) )
                  => output = catalog[c].questions
            /\ (\A c \in 1..Len(catalog) : ~hasKeyword(catalog[c], text))
                  => output = fallbackOf(input.page)

\* 'Carpark' has a keyword of the sculpture/park category and of the later
\* carpark category
C15_Witness ==
    /\ pc = "done" /\ input.page = 2 /\ input.winning = "Carpark"
    /\ hasKeyword(followUpCatalog[6], "carpark") /\ hasKeyword(followUpCatalog[9], "carpark")
    /\ output = followUpCatalog[6].questions

\* C16: the keywords are tested against the lowercased winning option, so the
\* selection is that of the lowercased text
C16_SelectionIgnoresCase ==
    pc = "done" =>
        output = IF input.page = 1 THEN selectGardenQuestions(toLowerCase(input.winning))
                 ELSE selectQuestions(toLowerCase(input.winning))

questionIds(questions) == [ i \in 1..Len(questions) |-> questions[i].id ]

\* C17: the winning option "Community vegetable garden with shared plots" of
\* the garden question selects the growing/food category's questions layout
\* style, key features and atmosphere, not the generic ones
C17_VegetableGardenSelectsGrowing ==
    ( /\ pc = "done" /\ input.page = 1
      /\ input.winning = "Community vegetable garden with shared plots" ) =>
        /\ questionIds(output) = << "layout_style", "key_features", "atmosphere" >>
        /\ output = gardenCatalog[1].questions
        /\ output # gardenGenericQuestions

C17_Witness ==
    /\ pc = "done" /\ input.page = 1
    /\ input.winning = "Community vegetable garden with shared plots"
    /\ output = gardenCatalog[1].questions

-----------------------------------------------------------------------------

\* C18: while phase is estimate and costEstimate is not null, the estimate was
\* computed for the selected model and the current population, and no later
\* estimate request is still unanswered
C18_EstimateIsForSelectedModel ==
    (phase = "estimate" /\ costEstimate # null) =>
        /\ Val(costEstimate).model = selectedModel
        /\ Val(costEstimate).num_agents = Len(personas)
        /\ Suspended("estimateCost") = {}

-----------------------------------------------------------------------------

\* the single-question estimate scaled by k
scaledBy(estimate, k) ==
    [num_agents |-> estimate.num_agents,
     prompt_tokens |-> estimate.prompt_tokens * k,
     completion_tokens |-> estimate.completion_tokens * k,
     cost_per_agent |-> estimate.cost_per_agent * k,
     total_cost |-> estimate.total_cost * k,
     num_questions |-> k,
     model |-> estimate.model]

\* C19: a follow-up estimate, when it is stored, is the single-question
\* estimate of its request scaled by k = followUpQuestions.length, and its
\* num_questions is k
C19_FollowUpEstimateScaledByQuestionCount ==
    [][ (followUpCostEstimate' # followUpCostEstimate /\ followUpCostEstimate' # null) =>
          \E m \in Models :
              followUpCostEstimate' =
                  Some(scaledBy(estimateReply(m, Len(personas)), Len(followUpQuestions'))) ]_vars

-----------------------------------------------------------------------------

\* C20: for each follow-up question i the counts of followUpTallies[i] sum to
\* the number of followUpResults with question_index i: every follow-up
\* response is counted in exactly one bucket
C20_FollowUpTalliesSumToResponses ==
    LET followUpTallies == computeFollowUpTallies(followUpResults, followUpQuestions)
    IN  \A i \in 1..Len(followUpTallies) :
            LET Asked(r) == r.question_index = i - 1
            IN  counted(followUpTallies[i].tallies) = Len(SelectSeq(followUpResults, Asked))

-----------------------------------------------------------------------------

\* the number of words of the lowercased label for which some word of the
\* response is a substring of it or has it as a substring
overlappingWords(label, response) ==
    LET optWords == split(toLowerCase(label))
        responseWords == split(response)
    IN  Cardinality({ i \in 1..Len(optWords) :
                        \E k \in 1..Len(responseWords) :
                            \/ includes(responseWords[k], optWords[i])
                            \/ includes(optWords[i], responseWords[k]) })

C22_NonsenseIsOther ==
    ( /\ pc = "done" /\ input.kind = "vote" /\ input.response = "qqzxpy nonsense"
      /\ \A i \in 1..Len(input.options) :
            overlappingWords(input.options[i], "qqzxpy nonsense") < 3 ) =>
        output = << "Other" >>

C22_Witness ==
    /\ pc = "done" /\ input.kind = "vote" /\ input.options = gardenOptions
    /\ input.response = "qqzxpy nonsense"
    /\ \A i \in 1..Len(gardenOptions) : overlappingWords(gardenOptions[i], "qqzxpy nonsense") = 0
    /\ output = << "Other" >>

-----------------------------------------------------------------------------

\* results with every response lowercased and trimmed
normalised(results) ==
    [ k \in 1..Len(results) |->
        [persona_id |-> results[k].persona_id,
         response |-> trim(toLowerCase(results[k].response))] ]

personaIds(voters) == [ k \in 1..Len(voters) |-> voters[k].persona_id ]

\* C23: letter case and leading or trailing whitespace of the responses change
\* neither the tally nor the responses listed as voters of the top choice
C23_CaseAndWhitespaceIgnored ==
    pc = "done" =>
        LET plain == normalised(input.results)
        IN  /\ computeVoteTallies(input.results) = computeVoteTallies(plain)
            /\ personaIds(output) =
                 personaIds(topChoiceVoters(computeVoteTallies(plain), plain, input.personas))

-----------------------------------------------------------------------------

\* C24: no entry of voteTallies and no entry of the tally of any follow-up
\* question has count 0
C24_NoZeroCountEntries ==
    LET followUpTallies == computeFollowUpTallies(followUpResults, followUpQuestions)
    IN  /\ \A i \in 1..Len(voteTallies) : voteTallies[i][2] > 0
        /\ \A i \in 1..Len(followUpTallies) :
              \A j \in 1..Len(followUpTallies[i].tallies) : followUpTallies[i].tallies[j][2] > 0

-----------------------------------------------------------------------------

scenarioResponses == << "Allotments", "I'd vote for the playground", "asdkjasd" >>

\* C25: the responses "Allotments", "I'd vote for the playground", "asdkjasd"
\* are tallied as Allotments 1, Playground 1, Other 1 in this order, and the
\* winning option taken from the first entry is Allotments
C25_ScenarioTallyAndWinner ==
    ( /\ pc = "done" /\ Len(input) = 3
      /\ \A k \in 1..3 : input[k].response = scenarioResponses[k] ) =>
        /\ output = << << "Allotments", 1 >>, << "Playground", 1 >>, << "Other", 1 >> >>
        /\ winnerAfter(output, null) = Some("Allotments")

C25_Witness ==
    /\ pc = "done" /\ Len(input) = 3
    /\ \A k \in 1..3 : input[k].response = scenarioResponses[k]
    /\ Len(output) = 3 /\ output[1] = << "Allotments", 1 >>

-----------------------------------------------------------------------------

estimateFails == \E p \in BagToSet(procs), msg \in EstimateErrors : estimateCostFailed(p, msg)
runFails == \E p \in BagToSet(procs), msg \in RunErrors : runSurveyFailed(p, msg)

\* C26: the state a failed estimate leaves differs from every state a failed
\* run leaves: its error message is none a failed run stores or no estimate
\* is stored, and after a failed run the message is none a failed estimate
\* stores or an estimate is stored
C26_EstimateFailureDistinctFromRunFailure ==
    [][ /\ estimateFails => (Val(error') \notin RunErrors \/ costEstimate' = null)
        /\ runFails => (Val(error') \notin EstimateErrors \/ costEstimate' # null) ]_vars

-----------------------------------------------------------------------------

\* C27: the responses a follow-up request stores carry the position in
\* followUpQuestions of the question the request asked, and followUpResults is
\* in non-decreasing question_index order
C27_QuestionIndexIsPositionInOrder ==
    [][ \A p \in Suspended("runFollowUpSurvey") :
          (\E data \in FollowUpReplies(personas, p.i, Val(p.q)) : followUpBatchOk(p, data)) =>
              /\ \A k \in (Len(followUpResults) + 1)..Len(followUpResults') :
                    /\ followUpResults'[k].question_index = p.i
                    /\ p.i < Len(followUpQuestions)
                    /\ followUpQuestions[p.i + 1] = Val(p.q)
              /\ \A j, k \in 1..Len(followUpResults') :
                    j < k => followUpResults'[j].question_index
                               <= followUpResults'[k].question_index ]_vars

-----------------------------------------------------------------------------

\* C28: selecting the follow-up questions issues no request: a step of
\* generateFollowUpQuestions leaves the requests in flight as they are
C28_SelectionIssuesNoRequest ==
    [][ generateFollowUpQuestions => procs' = procs ]_vars

-----------------------------------------------------------------------------

\* C29: in phase followup-estimate, when no estimate request is pending and
\* none has failed, the stored follow-up estimate is the one requested for the
\* selected model
C29_FollowUpEstimateIsForSelectedModel ==
    ( /\ phase = "followup-estimate"
      /\ Suspended("recalculateFollowUpCost") = {}
      /\ failuresLeft = MaxFailures ) =>
        /\ followUpCostEstimate # null
        /\ Val(followUpCostEstimate).model = selectedModel

-----------------------------------------------------------------------------

SurveyPhases == {"surveying", "results", "followup-estimate", "followup-surveying",
                 "followup-results"}

\* C30: in a cycle whose surveys were all started in sample-data mode,
\* totalCost is 0 from the start of the first survey through followup-results
C30_SampleCycleCostsNothing ==
    (ledger.source = "sample" /\ phase \in SurveyPhases) => totalCost = 0

-----------------------------------------------------------------------------

followUpEstimateFails ==
    \E p \in BagToSet(procs), msg \in EstimateErrors : recalculateFollowUpCostFailed(p, msg)

\* C31: a failing estimate request does not set phase to intro while phase is
\* surveying or results, and a failing follow-up estimate request does not set
\* phase to results while phase is followup-surveying or followup-results
C31_FailedEstimateOnlyLeavesEstimating ==
    [][ /\ estimateFails => phase \notin {"surveying", "results"}
        /\ followUpEstimateFails => phase \notin {"followup-surveying", "followup-results"} ]_vars

-----------------------------------------------------------------------------

EstimateProcs ==
    { p \in BagToSet(procs) : p.fn \in {"estimateCost", "recalculateFollowUpCost"} }

EstimatesInFlight == BagCardinality([ p \in EstimateProcs |-> procs[p] ])

\* C32: at most one cost-estimate request is in flight at any time
C32_OneEstimateRequestInFlight == EstimatesInFlight <= 1

-----------------------------------------------------------------------------

\* C33: when every request and timer is answered, phase surveying and phase
\* followup-surveying are each eventually left
C33_SurveyingIsLeft ==
    /\ (phase = "surveying") ~> (phase # "surveying")
    /\ (phase = "followup-surveying") ~> (phase # "followup-surveying")

-----------------------------------------------------------------------------

\* C34: in phase results and every later phase, when surveyResults is not
\* empty, winningOption is the label of the first entry of voteTallies
C34_WinningOptionIsTopOfTally ==
    ( /\ phase \in {"results", "followup-estimate", "followup-surveying", "followup-results"}
      /\ Len(surveyResults) > 0 ) =>
        /\ voteTallies = computeVoteTallies(surveyResults)
        /\ winningOption = Some(voteTallies[1][1])

-----------------------------------------------------------------------------

\* the follow-up batches whose responses are in results, as the number of
\* batches per question index: every batch has one response per persona
batchesOf(results, i) ==
    LET Asked(r) == r.question_index = i
    IN  Len(SelectSeq(results, Asked)) \div NumPersonas

\* the total_cost of the batches whose responses are in results
costOfBatches(results) ==
    LET indices == { results[k].question_index : k \in 1..Len(results) }
        RECURSIVE Sum(_)
        Sum(S) == IF S = {} THEN 0
                  ELSE LET i == CHOOSE j \in S : TRUE
                       IN  batchesOf(results, i) * FollowUpRunCost(i) + Sum(S \ {i})
    IN  Sum(indices)

\* C35: totalCost is the total_cost of the run that produced surveyResults, 0
\* when surveyResults is empty, plus the total_cost of the follow-up batches
\* whose responses are in followUpResults
C35_TotalCostMatchesStoredResults ==
    totalCost = (IF Len(surveyResults) > 0 THEN PlotRunCost ELSE 0)
                  + costOfBatches(followUpResults)

-----------------------------------------------------------------------------

estimateSucceeds ==
    \/ \E p \in BagToSet(procs) : estimateCostOk(p)
    \/ \E p \in BagToSet(procs) : recalculateFollowUpCostOk(p)

runSucceeds ==
    \/ \E p \in Suspended("runSurvey") :
          \E data \in RunReplies(personas) : runSurveyOk(p, data)
    \/ \E p \in Suspended("runFollowUpSurvey") :
          \E data \in FollowUpReplies(personas, p.i, Val(p.q)) :
             followUpBatchOk(p, data)

\* C36: an error does not outlive the failure it reports: after reset, and
\* after an estimate request or a run request succeeds, error is null
C36_ErrorClearedByResetAndSuccess ==
    [][ (reset \/ estimateSucceeds \/ runSucceeds) => error' = null ]_vars

-----------------------------------------------------------------------------

\* the requests to /api/survey/estimate and /api/survey/run that are awaited
RequestProcs ==
    { p \in BagToSet(procs) :
        p.fn \in {"estimateCost", "recalculateFollowUpCost", "runSurvey", "runFollowUpSurvey"} }

RequestsInFlight == BagCardinality([ p \in RequestProcs |-> procs[p] ])

\* C37: in a cycle whose survey was run with sample data, and with the toggle
\* still on "Sample Data", no step issues a request to the cost-estimate or
\* the survey-run endpoint, the follow-up phase included
C37_SampleModeIssuesNoRequest ==
    [][ (useSampleData /\ ledger.source = "sample") =>
           RequestsInFlight' <= RequestsInFlight ]_vars

-----------------------------------------------------------------------------

\* a response whose text is empty or white space only
blank(r) == trim(r.response) = ""

votesFor(tallies, label) ==
    LET Labelled(t) == t[1] = label
    IN  counted(SelectSeq(tallies, Labelled))

\* C38: a response whose text is empty or only white space is counted under
\* 'Other' and not for an option: against the tally of the other responses,
\* 'Other' grows by the number of blank responses and no option's count changes
C38_BlankResponseCountedAsOther ==
    pc = "done" =>
        LET Filled(r) == ~blank(r)
            rest == computeVoteTallies(SelectSeq(input, Filled))
            blanks == Len(input) - Len(SelectSeq(input, Filled))
        IN  /\ votesFor(output, "Other") = votesFor(rest, "Other") + blanks
            /\ \A i \in 1..Len(plotOptions) :
                  votesFor(output, plotOptions[i]) = votesFor(rest, plotOptions[i])

=============================================================================
